---- MODULE Spec2Model ----
(***************************************************************************)
(* CTD hysteresis test of rugliderqc (scripts/ctd_hysteresis_test.py).     *)
(*                                                                         *)
(* The scan of main() over the time-ordered profile files of a deployment  *)
(* is modelled one iteration of the outer `for i, f in enumerate(ncfiles)` *)
(* loop per action.  A dataset is a record                                 *)
(*    [readable, vars, time, anc, history]                                 *)
(* where vars maps every data variable name to its sample array, anc maps  *)
(* a variable to the list of names in its ancillary_variables attribute    *)
(* and history counts the provenance lines this script appended.           *)
(*                                                                         *)
(* Numbers.  Sample values are non-negative integers; the tested variables *)
(* are in tenths of their unit (20 is 2.0), pressure in whole dbar, time   *)
(* in epoch seconds.  The ratio thresholds are in tenths (3 is 0.3) and    *)
(* the float comparisons of the code are evaluated exactly, by cross       *)
(* multiplication.  The area shapely returns for the ring of a profile     *)
(* pair is an input of the step, drawn from PolygonAreas (tenths x dbar).  *)
(***************************************************************************)
EXTENDS Integers, Sequences, FiniteSets, TLC

VARIABLES
    ncfiles,      \* the sorted file list: ncfiles[k] is what file k holds on disk
    config_dict,  \* the thresholds loaded from ctd_hysteresis.yml
    e,            \* number of iterations of the file loop already run
    skip,         \* main's local `skip`
    f2skip,       \* main's local `f2skip` (Unbound before its first assignment)
    status,       \* main's local `status`
    summary,      \* main's local `summary`
    pc,           \* "scan", "done" (main returned) or "crashed" (uncaught exception)
    last,         \* what the latest iteration did (its index, branch per variable)
    pair,         \* a pair of profiles under classification, taken on its own
    summarizer,   \* summarize_qartod_flags.py: its position in its file loop and its locals
    deployments,  \* the file lists of the deployments of args.deployments still to scan
    run           \* which run of main over the files this is, and what the run before it left

vars == <<ncfiles, config_dict, e, skip, f2skip, status, summary, pc, last, pair,
          summarizer, deployments, run>>

----------------------------------------------------------------------------
(* Bounds of the model *)

\* longest file list of a deployment
MaxFiles == 4

\* longest file list the hysteresis test and the summary are both run on
MaxSummaryFiles == 2

\* highest suspect_threshold and fail_threshold of a pair classified on its own,
\* in tenths of the data range
MaxRatio == 4

\* longest file list when the profiles are drawn from PairCatalog
MaxPairFiles == 2

\* longest file list of a deployment when main scans two deployments
MaxDeploymentFiles == 2

\* longest file list when the profiles are drawn from DirectionCatalog
MaxDirectionFiles == 2

\* longest file list when the profiles are drawn from MaskCatalog
MaxMaskFiles == 2

\* longest file list when main is run twice over the files
MaxRerunFiles == 2

----------------------------------------------------------------------------
(* Program constants *)

\* qartod.QartodFlags
GOOD == 1
NOT_EVALUATED == 2
SUSPECT == 3
FAIL == 4
MISSING == 9

\* np.nan, as a sample value (every defined sample is >= 0)
NaN == -1

\* a local name of main that is not bound yet (UnboundLocalError on read)
Unbound == -1

\* the pressure-range floor, in dbar
MinPressureRange == 5

\* np.timedelta64(5, "m"), in milliseconds
FiveMinutes == 300000

test_varnames == <<"conductivity", "temperature">>

TestVars == {test_varnames[k] : k \in DOMAIN test_varnames}

DerivedVars == {"salinity", "density"}

\* qc_varname = f"{testvar}_hysteresis_test"
QcVarname(testvar) ==
    IF testvar = "conductivity" THEN "conductivity_hysteresis_test"
    ELSE "temperature_hysteresis_test"

\* the data variable names x of the modelled files with f"{varname}_qartod" in x
QartodNamesOf(varname) ==
    CASE varname = "pressure" ->
             {"pressure_qartod_flat_line_test", "pressure_qartod_summary_flag"}
      [] varname = "conductivity" ->
             {"conductivity_qartod_gross_range_test", "conductivity_qartod_spike_test",
              "conductivity_qartod_climatology_test",
              "conductivity_qartod_summary_flag"}
      [] varname = "temperature" ->
             {"temperature_qartod_spike_test", "temperature_qartod_summary_flag",
              "potential_temperature_qartod_spike_test"}
      [] OTHER -> {}

----------------------------------------------------------------------------
(* Arrays *)

IsNaN(x) == x = NaN

SetMax(S) == CHOOSE x \in S : \A y \in S : y <= x

SetMin(S) == CHOOSE x \in S : \A y \in S : x <= y

\* np.where(np.invert(np.isnan(a)))[0]
NonNanIdx(a) == {j \in DOMAIN a : ~IsNaN(a[j])}

\* np.nanmax(a) - np.nanmin(a): nan when every sample is nan
NanRange(a) ==
    IF NonNanIdx(a) = {} THEN NaN
    ELSE SetMax({a[j] : j \in NonNanIdx(a)}) - SetMin({a[j] : j \in NonNanIdx(a)})

\* a[idx][0] and a[idx][-1]
FirstValid(a) == a[SetMin(NonNanIdx(a))]

LastValid(a) == a[SetMax(NonNanIdx(a))]

\* f with key k set to v (dataset[name] = array)
Put(f, k, v) == [x \in DOMAIN f \cup {k} |-> IF x = k THEN v ELSE f[x]]

----------------------------------------------------------------------------
(* Helpers of the script *)

\* the name appended only when the attribute does not hold it yet
append_ancillary_variables_Once(dataset, target, qc_variable_name) ==
    IF target \in DOMAIN dataset.anc
       /\ \E j \in DOMAIN dataset.anc[target] : dataset.anc[target][j] = qc_variable_name
    THEN dataset
    ELSE [dataset EXCEPT !.anc =
             Put(@, target,
                 (IF target \in DOMAIN @ THEN @[target] ELSE <<>>)
                     \o <<qc_variable_name>>)]

\* append_ancillary_variables(dataset[target], qc_variable_name)
append_ancillary_variables(dataset, target, qc_variable_name) ==
    [dataset EXCEPT !.anc =
        Put(@, target,
            (IF target \in DOMAIN @ THEN @[target] ELSE <<>>) \o <<qc_variable_name>>)]

\* apply_qartod_qc: a copy of the variable with the samples a QARTOD channel of
\* that variable flags 2, 3 or 4 set to nan
apply_qartod_qc(dataset, varname) ==
    LET qvs == {x \in DOMAIN dataset.vars : x \in QartodNamesOf(varname)}
        data == dataset.vars[varname]
    IN  [j \in DOMAIN data |->
            IF \E qv \in qvs :
                   j \in DOMAIN dataset.vars[qv]
                   /\ dataset.vars[qv][j] \in {NOT_EVALUATED, SUSPECT, FAIL}
            THEN NaN
            ELSE data[j]]

\* every sample starts NOT_EVALUATED
initialize_flags_AllNotEvaluated(dataset, varname) ==
    LET data == dataset.vars[varname]
    IN  [non_nan_i |-> NonNanIdx(data),
         flags |-> [j \in DOMAIN data |-> NOT_EVALUATED]]

\* the flags start from zeros
initialize_flags_Zeros(dataset, varname) ==
    LET data == dataset.vars[varname]
    IN  [non_nan_i |-> NonNanIdx(data),
         flags |-> [j \in DOMAIN data |-> IF IsNaN(data[j]) THEN MISSING ELSE 0]]

\* initialize_flags: (non_nan_i, flags)
initialize_flags(dataset, varname) ==
    LET data == dataset.vars[varname]
    IN  [non_nan_i |-> NonNanIdx(data),
         flags |-> [j \in DOMAIN data |->
                        IF IsNaN(data[j]) THEN MISSING ELSE NOT_EVALUATED]]

\* the flags stored under the name of the tested variable
add_da_OverVariable(dataset, flag_array, test_varname, qc_variable_name) ==
    [dataset EXCEPT !.vars = Put(@, test_varname, flag_array)]

\* add_da: dataset[qc_variable_name] = flag_array
add_da(dataset, flag_array, test_varname, qc_variable_name) ==
    [dataset EXCEPT !.vars = Put(@, qc_variable_name, flag_array)]

\* cf.convert_epoch_ts: epoch seconds to timestamps (here in milliseconds)
convert_epoch_ts(time) == [j \in DOMAIN time |-> time[j] * 1000]

\* Series.interpolate(method="linear", limit_direction="both", limit=2): a nan
\* within 2 samples of a defined sample is filled, linearly between its defined
\* neighbours, with the nearest defined value before the first and after the last
interpolate(p) ==
    [j \in DOMAIN p |->
        IF ~IsNaN(p[j]) THEN p[j]
        ELSE LET left == {k \in NonNanIdx(p) : k < j}
                 right == {k \in NonNanIdx(p) : k > j}
             IN  IF left = {} /\ right = {} THEN NaN
                 ELSE IF left = {}
                      THEN (IF SetMin(right) - j <= 2 THEN p[SetMin(right)] ELSE NaN)
                 ELSE IF right = {}
                      THEN (IF j - SetMax(left) <= 2 THEN p[SetMax(left)] ELSE NaN)
                 ELSE LET l == SetMax(left)
                          r == SetMin(right)
                      IN  IF j - l <= 2 \/ r - j <= 2
                          THEN p[l] + ((p[r] - p[l]) * (j - l)) \div (r - l)
                          ELSE NaN]

\* a span of exactly 5 dbar set aside too
Degenerate_Inclusive(pressure_diff) ==
    IsNaN(pressure_diff) \/ pressure_diff <= MinPressureRange

\* lines 316-320 and 389-393: the pressure values are all nan or span < 5 dbar
Degenerate(pressure_diff) == IsNaN(pressure_diff) \/ pressure_diff < MinPressureRange

\* lines 327-330: the first file is an up profile
CurrentIsUp(pressure_copy) == FirstValid(pressure_copy) > LastValid(pressure_copy)

\* lines 402-405: the second file is a down profile too
LookaheadIsDown(pressure_copy2) == FirstValid(pressure_copy2) < LastValid(pressure_copy2)

\* a pair exactly 5 minutes apart taken as one yo
PairedYo_Inclusive(ds_time, ds2_time) ==
    ds2_time[1] - ds_time[Len(ds_time)] <= FiveMinutes

\* line 416: the end/start timestamps are less than 5 minutes apart
PairedYo(ds_time, ds2_time) == ds2_time[1] - ds_time[Len(ds_time)] < FiveMinutes

\* flag_vals[data_idx] = flag
SetFlags(flag_vals, data_idx, flag) ==
    [j \in DOMAIN flag_vals |-> IF j \in data_idx THEN flag ELSE flag_vals[j]]

----------------------------------------------------------------------------
(* The classification of a pair *)

\* an area equal to the product taken as exceeding it
AreaExceeds_Inclusive(polygon_area, pressure_range, data_range, threshold) ==
    IF pressure_range = 0 THEN polygon_area > 0
    ELSE polygon_area * 10 >= data_range * threshold * pressure_range

\* the data range divided by the threshold
AreaExceeds_Divided(polygon_area, pressure_range, data_range, threshold) ==
    IF pressure_range = 0 THEN polygon_area > 0
    ELSE polygon_area * threshold > data_range * 10 * pressure_range

\* area > data_range * threshold, where area = polygon_area / pressure_range and
\* threshold is in tenths.  A pressure range of 0 makes area inf (polygon_area > 0)
\* or nan (polygon_area = 0): inf exceeds every product, nan exceeds none.
AreaExceeds(polygon_area, pressure_range, data_range, threshold) ==
    IF pressure_range = 0 THEN polygon_area > 0
    ELSE polygon_area * 10 > data_range * threshold * pressure_range

\* the test run on a data range equal to the test_threshold
RunTest_Inclusive(data_range, thresholds) ==
    data_range >= thresholds.test_threshold

\* lines 471-475: the test is run when the data range is > test_threshold
RunTest(data_range, thresholds) == data_range > thresholds.test_threshold

\* the comparison with suspect_threshold made first
AreaFlag_SuspectFirst(polygon_area, pressure_range, data_range, thresholds) ==
    IF AreaExceeds(polygon_area, pressure_range, data_range,
                   thresholds.suspect_threshold)
    THEN SUSPECT
    ELSE IF AreaExceeds(polygon_area, pressure_range, data_range,
                        thresholds.fail_threshold)
         THEN FAIL
         ELSE GOOD

\* lines 486-507: FAIL, SUSPECT or GOOD by the area between the profiles
AreaFlag(polygon_area, pressure_range, data_range, thresholds) ==
    IF AreaExceeds(polygon_area, pressure_range, data_range,
                   thresholds.fail_threshold)
    THEN FAIL
    ELSE IF AreaExceeds(polygon_area, pressure_range, data_range,
                        thresholds.suspect_threshold)
         THEN SUSPECT
         ELSE GOOD

\* lines 471-515: the flag of a pair
Classify(polygon_area, pressure_range, data_range, thresholds) ==
    IF RunTest(data_range, thresholds)
    THEN AreaFlag(polygon_area, pressure_range, data_range, thresholds)
    ELSE GOOD

\* the second file flagged GOOD whatever the flag of the pair
FlagBoth_SecondGood(flags, flags2, flag) ==
    [ds |-> SetFlags(flags.flags, flags.non_nan_i, flag),
     ds2 |-> SetFlags(flags2.flags, flags2.non_nan_i, GOOD)]

\* lines 508-509 and 514-515: the flag goes to the defined samples of both files
FlagBoth(flags, flags2, flag) ==
    [ds |-> SetFlags(flags.flags, flags.non_nan_i, flag),
     ds2 |-> SetFlags(flags2.flags, flags2.non_nan_i, flag)]

----------------------------------------------------------------------------
(* One tested variable of one file: the body of `for testvar in                *)
(* test_varnames`.  L is the local state of main inside an iteration:          *)
(*   ds, ds2 (meaningful when ds2_bound), f2skip, status, summary,             *)
(*   crashed (an exception nothing catches was raised),                        *)
(*   path[testvar] (the branch taken) and obs[testvar] (what was computed).    *)

NoDataset == [readable |-> FALSE]

NoObs == [area_computed |-> FALSE, polygon_area |-> 0, pressure_range |-> 0,
          data_range |-> 0, flag |-> 0]

SetPath(L, testvar, p) == [L EXCEPT !.path[testvar] = p]

Crash(L, testvar, p) == [L EXCEPT !.crashed = TRUE, !.path[testvar] = p]

CommitCurrent(L, testvar, flag_vals) ==
    [L EXCEPT !.ds = add_da(@, flag_vals, testvar, QcVarname(testvar))]

CommitBoth(L, testvar, flag_vals, flag_vals2) ==
    [L EXCEPT !.ds = add_da(@, flag_vals, testvar, QcVarname(testvar)),
              !.ds2 = add_da(@, flag_vals2, testvar, QcVarname(testvar))]

\* the not-evaluated counter left as it is
NotEvaluated_Uncounted(L, testvar, n) == L

\* summary[testvar]["not_evaluated_profiles"] += n
NotEvaluated(L, testvar, n) ==
    [L EXCEPT !.summary[testvar].not_evaluated_profiles = @ + n]

\* lines 537-556: the ancillary_variables of ds, and of ds2 when it is bound and
\* holds the QC variable
Ancillary(L, testvar) ==
    LET qc_varname == QcVarname(testvar)
        checked == L.ds2_bound /\ qc_varname \in DOMAIN L.ds2.vars
        ds_1 == append_ancillary_variables(L.ds, testvar, qc_varname)
        ds2_1 == IF checked /\ testvar \in DOMAIN L.ds2.vars
                 THEN append_ancillary_variables(L.ds2, testvar, qc_varname)
                 ELSE L.ds2
        ds_2 == append_ancillary_variables(
                    append_ancillary_variables(ds_1, "salinity", qc_varname),
                    "density", qc_varname)
        Derived2(d, v) == IF checked /\ v \in DOMAIN d.vars
                          THEN append_ancillary_variables(d, v, qc_varname)
                          ELSE d
        ds2_2 == Derived2(Derived2(ds2_1, "salinity"), "density")
    IN  IF ~(DerivedVars \subseteq DOMAIN L.ds.vars)
        THEN [L EXCEPT !.crashed = TRUE]
        ELSE [L EXCEPT !.ds = ds_2, !.ds2 = ds2_2]

\* lines 430-461 for one file: the rows of its dataframe that dropna keeps,
\* as the pressures and the values they hold and their number
Frame(pressure_copy, data_copy) ==
    LET p == interpolate(pressure_copy)
        rows == {j \in DOMAIN data_copy : ~IsNaN(data_copy[j]) /\ ~IsNaN(p[j])}
    IN  [pressure |-> {p[j] : j \in rows},
         value |-> {data_copy[j] : j \in rows},
         n |-> Cardinality(rows)]

\* line 460: pd.concat([df, df2])
Concat(df, df2) ==
    [pressure |-> df.pressure \cup df2.pressure,
     value |-> df.value \cup df2.value,
     n |-> df.n + df2.n]

\* a classified pair counted as one profile
Flagged_CountedOnce(L, testvar, polygon_area, pressure_range, data_range, run_test, flag, flagged) ==
    LET counter == IF flag = FAIL THEN "failed_profiles" ELSE "suspect_profiles"
        counted == IF run_test /\ flag \in {FAIL, SUSPECT}
                   THEN [L EXCEPT !.summary[testvar][counter] = @ + 1]
                   ELSE L
    IN  [CommitBoth(counted, testvar, flagged.ds, flagged.ds2)
            EXCEPT !.f2skip = @ + 1,
                   !.path[testvar] = "classified",
                   !.obs[testvar] =
                       [area_computed |-> run_test,
                        polygon_area |-> IF run_test THEN polygon_area ELSE 0,
                        pressure_range |-> pressure_range,
                        data_range |-> data_range,
                        flag |-> flag]]

\* lines 494-520: the counters, the flag on both files, the pair consumed
Flagged(L, testvar, polygon_area, pressure_range, data_range, run_test, flag, flagged) ==
    LET counter == IF flag = FAIL THEN "failed_profiles" ELSE "suspect_profiles"
        counted == IF run_test /\ flag \in {FAIL, SUSPECT}
                   THEN [L EXCEPT !.summary[testvar][counter] = @ + 2]
                   ELSE L
    IN  [CommitBoth(counted, testvar, flagged.ds, flagged.ds2)
            EXCEPT !.f2skip = @ + 1,
                   !.path[testvar] = "classified",
                   !.obs[testvar] =
                       [area_computed |-> run_test,
                        polygon_area |-> IF run_test THEN polygon_area ELSE 0,
                        pressure_range |-> pressure_range,
                        data_range |-> data_range,
                        flag |-> flag]]

\* lines 471-520: a ring of fewer than 3 rows makes Polygon raise ValueError
ClassifyRanges(L, testvar, thresholds, polygon_area, flags, flags2, n, pressure_range, data_range) ==
    IF RunTest(data_range, thresholds) /\ n < 3
    THEN Crash(L, testvar, "ring_too_short")
    ELSE Flagged(L, testvar, polygon_area, pressure_range, data_range,
                 RunTest(data_range, thresholds),
                 Classify(polygon_area, pressure_range, data_range, thresholds),
                 FlagBoth(flags, flags2,
                          Classify(polygon_area, pressure_range, data_range,
                                   thresholds)))

\* lines 464-520: the ranges of the rows; with no row left df.values.tolist()[0]
\* raises IndexError when the test is run (nanmax of nothing gives nan before)
ClassifyFrame(L, testvar, thresholds, polygon_area, flags, flags2, df) ==
    IF df.n = 0
    THEN Crash(L, testvar, "no_rows")
    ELSE ClassifyRanges(L, testvar, thresholds, polygon_area, flags, flags2, df.n,
                        SetMax(df.pressure) - SetMin(df.pressure),
                        SetMax(df.value) - SetMin(df.value))

\* lines 429-520: both profiles have data left after the QARTOD flags are applied
ClassifyPair(L, testvar, thresholds, polygon_area, flags, flags2, pressure_copy, pressure_copy2, data_copy, data_copy2) ==
    ClassifyFrame(L, testvar, thresholds, polygon_area, flags, flags2,
                  Concat(Frame(pressure_copy, data_copy),
                         Frame(pressure_copy2, data_copy2)))

\* the flags of ds committed as they are, one profile not evaluated
Marked(L, testvar, flags) ==
    NotEvaluated(CommitCurrent(L, testvar, flags.flags), testvar, 1)

\* both profiles committed and counted, ds2 left for the next iteration
Consumed_NotSkipped(L, testvar, flags, flags2) ==
    NotEvaluated(CommitBoth(L, testvar, flags.flags, flags2.flags), testvar, 2)

\* the flags of ds and ds2 committed as they are, two profiles not evaluated,
\* ds2 consumed
Consumed(L, testvar, flags, flags2) ==
    [NotEvaluated(CommitBoth(L, testvar, flags.flags, flags2.flags), testvar, 2)
        EXCEPT !.f2skip = @ + 1]

\* lines 537-556 after a classification, unless the classification raised
AncillaryOf(C, testvar) == IF C.crashed THEN C ELSE Ancillary(C, testvar)

\* a paired yo classified when one of the two profiles has data left
Surviving_Either(L, testvar, thresholds, polygon_area, flags, flags2, pressure_copy, pressure_copy2, data_copy, data_copy2) ==
    IF NonNanIdx(data_copy) # {} \/ NonNanIdx(data_copy2) # {}
    THEN AncillaryOf(ClassifyPair(L, testvar, thresholds, polygon_area, flags,
                                  flags2, pressure_copy, pressure_copy2,
                                  data_copy, data_copy2), testvar)
    ELSE Ancillary(SetPath(Consumed(L, testvar, flags, flags2), testvar,
                           "no_surviving_data"), testvar)

\* lines 419-528: a paired yo
Surviving(L, testvar, thresholds, polygon_area, flags, flags2, pressure_copy, pressure_copy2, data_copy, data_copy2) ==
    IF NonNanIdx(data_copy) # {} /\ NonNanIdx(data_copy2) # {}
    THEN AncillaryOf(ClassifyPair(L, testvar, thresholds, polygon_area, flags,
                                  flags2, pressure_copy, pressure_copy2,
                                  data_copy, data_copy2), testvar)
    ELSE Ancillary(SetPath(Consumed(L, testvar, flags, flags2), testvar,
                           "no_surviving_data"), testvar)

\* a down lookahead consumed with the current file
WithFlags2_DownConsumed(L, testvar, thresholds, polygon_area, flags, pressure_copy, flags2, pressure_copy2) ==
    IF Degenerate(NanRange(pressure_copy2))
    THEN SetPath(Consumed(L, testvar, flags, flags2), testvar,
                 "degenerate_lookahead")
    ELSE IF LookaheadIsDown(pressure_copy2)
    THEN Ancillary(SetPath(Consumed(L, testvar, flags, flags2), testvar,
                           "down_lookahead"), testvar)
    ELSE IF PairedYo(convert_epoch_ts(L.ds.time), convert_epoch_ts(L.ds2.time))
    THEN Surviving(L, testvar, thresholds, polygon_area, flags, flags2,
                   pressure_copy, pressure_copy2,
                   apply_qartod_qc(L.ds, testvar), apply_qartod_qc(L.ds2, testvar))
    ELSE Ancillary(SetPath(Consumed(L, testvar, flags, flags2), testvar,
                           "time_gap"), testvar)

\* lines 383-535: ds is a down profile, ds2 is bound and holds the variable
WithFlags2(L, testvar, thresholds, polygon_area, flags, pressure_copy, flags2, pressure_copy2) ==
    IF Degenerate(NanRange(pressure_copy2))
    THEN SetPath(Consumed(L, testvar, flags, flags2), testvar,
                 "degenerate_lookahead")
    ELSE IF LookaheadIsDown(pressure_copy2)
    THEN Ancillary(SetPath(Marked(L, testvar, flags), testvar, "down_lookahead"),
                   testvar)
    ELSE IF PairedYo(convert_epoch_ts(L.ds.time), convert_epoch_ts(L.ds2.time))
    THEN Surviving(L, testvar, thresholds, polygon_area, flags, flags2,
                   pressure_copy, pressure_copy2,
                   apply_qartod_qc(L.ds, testvar), apply_qartod_qc(L.ds2, testvar))
    ELSE Ancillary(SetPath(Consumed(L, testvar, flags, flags2), testvar,
                           "time_gap"), testvar)

\* lines 368-535: ds is a down profile and ds2 is bound
WithLookahead(L, testvar, thresholds, polygon_area, flags, pressure_copy) ==
    IF testvar \notin DOMAIN L.ds2.vars
    THEN SetPath(Marked([L EXCEPT !.status = 1], testvar, flags), testvar,
                 "lookahead_missing_variable")
    ELSE WithFlags2(L, testvar, thresholds, polygon_area, flags, pressure_copy,
                    initialize_flags(L.ds2, testvar),
                    apply_qartod_qc(L.ds2, "pressure"))

\* lines 343-348: the ancillary_variables of the last file, a down profile
TerminalAncillary(L, testvar) ==
    LET qc_varname == QcVarname(testvar)
    IN  IF ~(DerivedVars \subseteq DOMAIN L.ds.vars)
        THEN [L EXCEPT !.crashed = TRUE]
        ELSE [L EXCEPT !.ds =
                 append_ancillary_variables(
                     append_ancillary_variables(
                         append_ancillary_variables(@, testvar, qc_varname),
                         "salinity", qc_varname),
                     "density", qc_varname)]

\* lines 353-366: ds2 is opened unless it is already bound
OpenLookahead(L, i) ==
    IF L.ds2_bound THEN L
    ELSE IF ncfiles[i + 1].readable
         THEN [L EXCEPT !.ds2 = ncfiles[i + 1], !.ds2_bound = TRUE]
         ELSE [L EXCEPT !.status = 1, !.f2skip = @ + 1]

\* lines 353-535: ds is a down profile with a file after it; when the read of
\* that file fails ds2 stays unbound and ds2[testvar] raises UnboundLocalError
Lookahead(opened, testvar, thresholds, polygon_area, flags, pressure_copy) ==
    IF ~opened.ds2_bound
    THEN Crash(opened, testvar, "lookahead_read_error")
    ELSE WithLookahead(opened, testvar, thresholds, polygon_area, flags,
                       pressure_copy)

\* lines 316-535: the tested variable has data
WithPressure(L, i, testvar, thresholds, polygon_area, flags, pressure_copy) ==
    IF Degenerate(NanRange(pressure_copy))
    THEN SetPath(Marked(L, testvar, flags), testvar, "degenerate_current")
    ELSE IF CurrentIsUp(pressure_copy)
    THEN Ancillary(SetPath(Marked(L, testvar, flags), testvar, "up_current"),
                   testvar)
    ELSE IF i + 1 > Len(ncfiles)
    THEN TerminalAncillary(SetPath(Marked(L, testvar, flags), testvar,
                                   "terminal_down"), testvar)
    ELSE Lookahead(OpenLookahead(L, i), testvar, thresholds, polygon_area, flags,
                   pressure_copy)

\* lines 299-535: the tested variable is in ds
WithFlags(L, i, testvar, thresholds, polygon_area, flags) ==
    IF flags.non_nan_i = {}
    THEN SetPath([L EXCEPT !.status = 1], testvar, "no_data")
    ELSE WithPressure(L, i, testvar, thresholds, polygon_area, flags,
                      apply_qartod_qc(L.ds, "pressure"))

\* the status kept when the tested variable is not in ds
TestVar_StatusKept(L, i, testvar, polygon_area) ==
    IF L.crashed THEN L
    ELSE IF testvar \notin DOMAIN L.ds.vars
    THEN SetPath(L, testvar, "missing_variable")
    ELSE WithFlags(L, i, testvar, config_dict[QcVarname(testvar)], polygon_area,
                   initialize_flags(L.ds, testvar))

\* lines 282-556: one pass of the loop over the tested variables, for file i
TestVar(L, i, testvar, polygon_area) ==
    IF L.crashed THEN L
    ELSE IF testvar \notin DOMAIN L.ds.vars
    THEN SetPath([L EXCEPT !.status = 1], testvar, "missing_variable")
    ELSE WithFlags(L, i, testvar, config_dict[QcVarname(testvar)], polygon_area,
                   initialize_flags(L.ds, testvar))

RECURSIVE TestVarsFrom(_, _, _, _)
TestVarsFrom(L, i, k, polygon_areas) ==
    IF k > Len(test_varnames) THEN L
    ELSE TestVarsFrom(TestVar(L, i, test_varnames[k], polygon_areas[test_varnames[k]]),
                      i, k + 1, polygon_areas)

\* the local state when the loop over the tested variables starts (line 279)
EnterFile(i) ==
    [ds |-> ncfiles[i], ds2 |-> NoDataset, ds2_bound |-> FALSE, f2skip |-> 0,
     status |-> status, summary |-> summary, crashed |-> FALSE,
     path |-> [tv \in TestVars |-> "none"],
     obs |-> [tv \in TestVars |-> NoObs]]

\* lines 281-556 for file i
FileBody(i, polygon_areas) == TestVarsFrom(EnterFile(i), i, 1, polygon_areas)

\* lines 558-579: the history attribute, and the datasets written back
AddHistory(dataset) == [dataset EXCEPT !.history = @ + 1]

Save(L, i) ==
    [k \in DOMAIN ncfiles |->
        IF k = i + 1 /\ L.ds2_bound THEN AddHistory(L.ds2)
        ELSE IF k = i THEN AddHistory(L.ds)
        ELSE ncfiles[k]]

----------------------------------------------------------------------------
(* The inputs: profile files, thresholds, polygon areas *)

\* a readable profile file; an empty array leaves the variable out of the file
Profile(pressure, pressure_flags, time, conductivity, conductivity_flags, temperature, temperature_flags) ==
    LET Opt(name, a) == IF a = <<>> THEN <<>> ELSE name :> a
        derived == [j \in DOMAIN pressure |-> 0]
    IN  [readable |-> TRUE,
         vars |-> ("pressure" :> pressure) @@ ("salinity" :> derived)
                  @@ ("density" :> derived)
                  @@ Opt("conductivity", conductivity)
                  @@ Opt("temperature", temperature)
                  @@ Opt("pressure_qartod_flat_line_test", pressure_flags)
                  @@ Opt("conductivity_qartod_gross_range_test", conductivity_flags)
                  @@ Opt("temperature_qartod_spike_test", temperature_flags),
         time |-> time,
         anc |-> <<>>,
         history |-> 0]

\* a file that cannot be read (xr.open_dataset raises OSError)
Unreadable == [readable |-> FALSE]

\* sample times within a file slot of 12 minutes: the next file starts 4, 5 or
\* 10 minutes after the last sample
Near == <<0, 240, 480>>
Edge == <<0, 210, 420>>
Far == <<0, 60, 120>>

Falling == <<10, 20, 30>>
Rising == <<30, 20, 10>>

ScanCatalog ==
    { Unreadable,
      Profile(<<0, 5, 10>>, <<>>, Near, Falling, <<>>, Falling, <<>>),
      Profile(<<0, 5, 10>>, <<>>, Far, Falling, <<>>, Falling, <<>>),
      Profile(<<10, 5, 0>>, <<>>, Near, Rising, <<>>, Rising, <<>>),
      Profile(<<0, 2, 4>>, <<>>, Near, Falling, <<>>, Falling, <<>>),
      Profile(<<0, 5, 10>>, <<>>, Near, <<>>, <<>>, Falling, <<>>) }

\* profiles that differ in one respect from a plain down or up profile
PairCatalog ==
    ScanCatalog \cup
    { \* the next file starts exactly 5 minutes after the last sample
      Profile(<<0, 5, 10>>, <<>>, Edge, Falling, <<>>, Falling, <<>>),
      \* pressure spans exactly 5 dbar
      Profile(<<0, 2, 5>>, <<>>, Near, Falling, <<>>, Falling, <<>>),
      \* pressure spans 10 dbar, but 0 dbar after its QARTOD flags are applied
      Profile(<<0, 5, 10>>, <<1, 4, 3>>, Near, Falling, <<>>, Falling, <<>>),
      \* pressure is undefined
      Profile(<<NaN, NaN, NaN>>, <<>>, Near, Falling, <<>>, Falling, <<>>),
      \* pressure spans 4 dbar, conductivity has undefined and flagged samples
      Profile(<<4, 2, 0>>, <<>>, Near, <<NaN, 20, 10>>, <<1, 4, 1>>, Rising, <<>>),
      \* a tested variable is not in the file
      Profile(<<10, 5, 0>>, <<>>, Near, <<>>, <<>>, Rising, <<>>),
      \* a tested variable is undefined throughout
      Profile(<<0, 5, 10>>, <<>>, Near, <<NaN, NaN, NaN>>, <<>>, Falling, <<>>),
      Profile(<<10, 5, 0>>, <<>>, Near, <<NaN, NaN, NaN>>, <<>>, Rising, <<>>),
      \* every sample of a tested variable is flagged by a QARTOD test
      Profile(<<0, 5, 10>>, <<>>, Near, Falling, <<4, 3, 2>>, Falling, <<>>),
      \* tested variables with undefined samples and samples flagged by a QARTOD test
      Profile(<<0, 5, 10>>, <<>>, Near, <<NaN, 20, 30>>, <<1, 4, 1>>,
              <<10, 20, NaN>>, <<9, 1, 1>>),
      Profile(<<10, 5, 0>>, <<>>, Near, <<NaN, 20, 10>>, <<1, 1, 3>>, Rising, <<>>),
      \* a well-mixed water column
      Profile(<<0, 5, 10>>, <<>>, Near, <<20, 21, 22>>, <<>>, <<20, 22, 25>>, <<>>),
      Profile(<<10, 5, 0>>, <<>>, Near, <<22, 21, 20>>, <<>>, <<25, 22, 20>>, <<>>) }

\* the file list of a deployment: file k holds entry c[k], its times moved to slot k
FileLists(catalog, n) ==
    { [k \in 1..n |->
          IF c[k].readable
          THEN [c[k] EXCEPT !.time = [j \in DOMAIN @ |-> @[j] + 720 * k]]
          ELSE c[k]] : c \in [1..n -> catalog] }

Thresholds(test, suspect, fail) ==
    [test_threshold |-> test, suspect_threshold |-> suspect, fail_threshold |-> fail]

Config(conductivity, temperature) ==
    [conductivity_hysteresis_test |-> conductivity,
     temperature_hysteresis_test |-> temperature]

\* test_threshold 0.5, suspect_threshold 0.1, fail_threshold 0.3
Standard == Thresholds(5, 1, 3)

ScanConfigs == { Config(Standard, Standard) }

\* a test_threshold equal to the data range of a plain pair; fail_threshold below
\* suspect_threshold
PairConfigs ==
    { Config(Standard, Standard),
      Config(Thresholds(20, 1, 3), Thresholds(5, 3, 1)) }

\* what shapely can return as area of the polygons of a ring
PolygonAreas == {20, 40, 80}

\* the areas drawn for a tested variable: one of PolygonAreas when its polygon
\* is built, as the run with no area (probe) tells, and 0 for no polygon
Drawn(probe, tv) == IF probe[tv].area_computed THEN PolygonAreas ELSE {0}

ChoicesFor(probe) ==
    { [tv \in TestVars |-> IF tv = test_varnames[1] THEN a[1] ELSE a[2]] :
        a \in Drawn(probe, test_varnames[1]) \X Drawn(probe, test_varnames[2]) }

\* the areas an iteration on file i draws, one for each tested variable
AreaChoices(i) == ChoicesFor(FileBody(i, [tv \in TestVars |-> 0]).obs)

----------------------------------------------------------------------------
(* The scan *)

NoStep == [kind |-> "none", i |-> 0, path |-> [tv \in TestVars |-> "none"],
           obs |-> [tv \in TestVars |-> NoObs]]

ZeroSummary ==
    [tv \in TestVars |->
        [failed_profiles |-> 0, suspect_profiles |-> 0, not_evaluated_profiles |-> 0]]

\* summarize_qartod_flags.py has not been started: no file done, status 0
NotStarted == [pc |-> "idle", done |-> 0, status |-> 0]

\* the first run of main over the files: no run before it
FirstRun == [n |-> 1, polygon_areas |-> <<>>, ncfiles |-> <<>>]

\* no pair is under classification on its own
NoPair == [polygon_area |-> 0, pressure_range |-> 0, data_range |-> 0,
           thresholds |-> Standard, flag |-> NOT_EVALUATED, previous |-> NOT_EVALUATED]

InitScan(files, configs) ==
    /\ ncfiles = files
    /\ config_dict \in configs
    /\ e = 0
    /\ skip = 0
    /\ f2skip = Unbound
    /\ status = 0
    /\ summary = ZeroSummary
    /\ pc = "scan"
    /\ last = NoStep
    /\ pair = NoPair
    /\ summarizer = NotStarted
    /\ deployments = <<>>
    /\ run = FirstRun

Init == \E n \in 1..MaxFiles : \E files \in FileLists(ScanCatalog, n) :
            InitScan(files, ScanConfigs)

\* skip left as it is, whatever the previous file consumed
SkipNow_Kept == skip

\* lines 256-263: skip grows when the previous file consumed its lookahead
SkipNow == IF f2skip # Unbound /\ f2skip > 0 THEN skip + 1 ELSE skip

\* the index (from 1) of the file this iteration works on
Index == e + SkipNow + 1

\* lines 266-267
IterPastEnd ==
    /\ pc = "scan"
    /\ e < Len(ncfiles)
    /\ Index > Len(ncfiles)
    /\ e' = e + 1
    /\ skip' = SkipNow
    /\ last' = [NoStep EXCEPT !.kind = "past_end", !.i = Index]
    /\ UNCHANGED <<ncfiles, config_dict, f2skip, status, summary, pc, pair, summarizer, deployments, run>>

\* lines 269-275
IterReadError ==
    /\ pc = "scan"
    /\ e < Len(ncfiles)
    /\ Index <= Len(ncfiles)
    /\ ~ncfiles[Index].readable
    /\ e' = e + 1
    /\ skip' = SkipNow
    /\ status' = 1
    /\ last' = [NoStep EXCEPT !.kind = "read_error", !.i = Index]
    /\ UNCHANGED <<ncfiles, config_dict, f2skip, summary, pc, pair, summarizer, deployments, run>>

\* lines 558-579: the body of the loop ran to its end with the locals L, the
\* files are written back
Written(L, i) ==
    /\ ~L.crashed
    /\ ncfiles' = Save(L, i)
    /\ f2skip' = L.f2skip
    /\ status' = L.status
    /\ summary' = L.summary
    /\ last' = [kind |-> "file", i |-> i, path |-> L.path, obs |-> L.obs]

\* the body of the loop raised with the locals L: nothing is written back
Raised(L, i) ==
    /\ L.crashed
    /\ f2skip' = L.f2skip
    /\ status' = L.status
    /\ summary' = L.summary
    /\ last' = [kind |-> "crash", i |-> i, path |-> L.path, obs |-> L.obs]

\* lines 269-579: the file is read, tested and written back
IterFile ==
    /\ pc = "scan"
    /\ e < Len(ncfiles)
    /\ Index <= Len(ncfiles)
    /\ ncfiles[Index].readable
    /\ \E polygon_areas \in AreaChoices(Index) :
         Written(FileBody(Index, polygon_areas), Index)
    /\ e' = e + 1
    /\ skip' = SkipNow
    /\ UNCHANGED <<config_dict, pc, pair, summarizer, deployments, run>>

\* an exception raised in the body of the loop that nothing catches ends main
IterCrash ==
    /\ pc = "scan"
    /\ e < Len(ncfiles)
    /\ Index <= Len(ncfiles)
    /\ ncfiles[Index].readable
    /\ \E polygon_areas \in AreaChoices(Index) :
         Raised(FileBody(Index, polygon_areas), Index)
    /\ skip' = SkipNow
    /\ pc' = "crashed"
    /\ UNCHANGED <<ncfiles, config_dict, e, pair, summarizer, deployments, run>>

\* lines 581-598: the file loop is over, the summary is logged, main returns
ScanEnd ==
    /\ pc = "scan"
    /\ e = Len(ncfiles)
    /\ deployments = <<>>
    /\ pc' = "done"
    /\ UNCHANGED <<ncfiles, config_dict, e, skip, f2skip, status, summary, last, pair, summarizer, deployments, run>>

Next == IterPastEnd \/ IterReadError \/ IterFile \/ IterCrash \/ ScanEnd

Spec == Init /\ [][Next]_vars

\* short file lists of profiles of every kind, under every configuration
InitPair ==
    \E n \in 1..MaxPairFiles : \E files \in FileLists(PairCatalog, n) :
        InitScan(files, PairConfigs)

SpecPair == InitPair /\ [][Next]_vars

----------------------------------------------------------------------------
(* The classification of lines 471-515 on its own: the area of the polygon,    *)
(* the pressure range and the data range of a pair are drawn from small sets,  *)
(* the thresholds from every setting up to MaxRatio tenths.                    *)

PairAreas == {0, 10, 20, 40, 60, 80}

PairPressureRanges == {0, 5, 10}

PairDataRanges == {0, 5, 6, 20}

PairThresholds ==
    {Thresholds(t, s, f) : t \in {0, 5}, s \in 0..MaxRatio, f \in 0..MaxRatio}

InitClassify ==
    /\ ncfiles = <<>>
    /\ config_dict = Config(Standard, Standard)
    /\ e = 0
    /\ skip = 0
    /\ f2skip = Unbound
    /\ status = 0
    /\ summary = ZeroSummary
    /\ pc = "classify"
    /\ last = NoStep
    /\ summarizer = NotStarted
    /\ deployments = <<>>
    /\ run = FirstRun
    /\ \E a \in PairAreas, pr \in PairPressureRanges, dr \in PairDataRanges,
          th \in PairThresholds :
           pair = [polygon_area |-> a, pressure_range |-> pr, data_range |-> dr,
                   thresholds |-> th, flag |-> NOT_EVALUATED,
                   previous |-> NOT_EVALUATED]

\* the flag of the pair under the thresholds th
Reclassified(th) ==
    [pair EXCEPT !.thresholds = th,
                 !.previous = pair.flag,
                 !.flag = Classify(pair.polygon_area, pair.pressure_range,
                                   pair.data_range, th)]

\* lines 471-515: the pair is classified
ClassifyStep ==
    /\ pc = "classify"
    /\ pair' = Reclassified(pair.thresholds)
    /\ pc' = "classified"
    /\ UNCHANGED <<ncfiles, config_dict, e, skip, f2skip, status, summary, last, summarizer, deployments, run>>

\* the same pair is classified again under a higher fail_threshold
RaiseFail ==
    /\ pc = "classified"
    /\ pair.thresholds.fail_threshold < MaxRatio
    /\ pair' = Reclassified([pair.thresholds EXCEPT !.fail_threshold = @ + 1])
    /\ UNCHANGED <<ncfiles, config_dict, e, skip, f2skip, status, summary, pc, last, summarizer, deployments, run>>

\* the same pair is classified again under a higher suspect_threshold
RaiseSuspect ==
    /\ pc = "classified"
    /\ pair.thresholds.suspect_threshold < MaxRatio
    /\ pair' = Reclassified([pair.thresholds EXCEPT !.suspect_threshold = @ + 1])
    /\ UNCHANGED <<ncfiles, config_dict, e, skip, f2skip, status, summary, pc, last, summarizer, deployments, run>>

NextClassify == ClassifyStep \/ RaiseFail \/ RaiseSuspect

SpecClassify == InitClassify /\ [][NextClassify]_vars

----------------------------------------------------------------------------
(* summarize_qartod_flags.py, run on the files once the hysteresis test has    *)
(* returned: one iteration of its `for f in ncfiles` loop per action.          *)

\* the sensors whose channels the modelled files can hold
Sensors == {"pressure", "conductivity", "temperature"}

\* the data variable names of the modelled files, in the order of ds.data_vars
DataVars ==
    <<"pressure", "conductivity", "temperature", "salinity", "density",
      "pressure_qartod_flat_line_test", "conductivity_qartod_gross_range_test",
      "conductivity_qartod_spike_test", "conductivity_qartod_climatology_test",
      "temperature_qartod_spike_test", "conductivity_hysteresis_test",
      "temperature_hysteresis_test", "pressure_qartod_summary_flag",
      "conductivity_qartod_summary_flag", "temperature_qartod_summary_flag",
      "potential_temperature", "potential_temperature_qartod_spike_test">>

\* "_qartod_" in x
ContainsQartod(x) == \E sensor \in Sensors : x \in QartodNamesOf(sensor)

\* "_qartod_climatology" in x
ContainsQartodClimatology(x) == x = "conductivity_qartod_climatology_test"

\* x.split("_qartod_")[0], for a name x with "_qartod_" in it
SplitQartod(x) ==
    IF x = "potential_temperature_qartod_spike_test"
    THEN "potential_temperature"
    ELSE CHOOSE sensor \in Sensors : x \in QartodNamesOf(sensor)

\* f"{sensor}_qartod_summary_flag"
SummaryVarname(sensor) ==
    CASE sensor = "pressure" -> "pressure_qartod_summary_flag"
      [] sensor = "conductivity" -> "conductivity_qartod_summary_flag"
      [] sensor = "temperature" -> "temperature_qartod_summary_flag"

\* lines 148-152: the qartod flag variables of the file, the climatology test
\* excluded
qartod_vars(ds) ==
    {x \in DOMAIN ds.vars : ContainsQartod(x) /\ ~ContainsQartodClimatology(x)}

\* line 158: the sensors that were QC'd
qc_vars(ds) == {SplitQartod(x) : x \in qartod_vars(ds)}

\* lines 164-166: the flag variables of a sensor, in the order of the file
sensor_qartod_vars(ds, sensor) ==
    LET Of(x) == x \in qartod_vars(ds) /\ x \in QartodNamesOf(sensor)
    IN  SelectSeq(DataVars, Of)

\* the flags taken as they are
Neutral_Kept(flag) == flag

\* lines 169-172: a copy of the flags with 2 turned to 0
Neutral(flag) == IF flag = NOT_EVALUATED THEN 0 ELSE flag

\* lines 162-177: the highest flag of the channels at every sample, 0 turned back
\* to 2
summary_flag(ds, sensor, channels) ==
    [j \in DOMAIN ds.vars[sensor] |->
        LET highest == SetMax({0} \cup {Neutral(ds.vars[channels[c]][j]) :
                                           c \in DOMAIN channels})
        IN  IF highest = 0 THEN NOT_EVALUATED ELSE highest]

\* lines 161-204 for one sensor: the summary variable, its ancillary_variables
\* (the channels it summarizes) and the ancillary_variables of the sensor
SummarizeSensor(ds, sensor, channels) ==
    append_ancillary_variables(
        [ds EXCEPT !.vars = Put(@, SummaryVarname(sensor),
                                summary_flag(ds, sensor, channels)),
                   !.anc = Put(@, SummaryVarname(sensor), channels)],
        sensor, SummaryVarname(sensor))

\* lines 158-204: the sensors in the order of np.unique (sorted by name)
SummarizeFrom(ds, sensors) ==
    LET Step(d, sensor) ==
            IF sensor \in qc_vars(ds)
            THEN SummarizeSensor(d, sensor, sensor_qartod_vars(ds, sensor))
            ELSE d
    IN  Step(Step(Step(ds, sensors[1]), sensors[2]), sensors[3])

\* ds[sensor] raises KeyError when a sensor that was QC'd is not in the file
SummaryRaises(ds) == \E sensor \in qc_vars(ds) : sensor \notin DOMAIN ds.vars

\* the file the summarizer is at
Current == summarizer.done + 1

\* the hysteresis test has returned and the summarizer is in its file loop
Summarizing ==
    /\ pc = "done"
    /\ summarizer.pc \in {"idle", "run"}
    /\ summarizer.done < Len(ncfiles)

\* lines 138-145: the file cannot be read
SummarizeReadError ==
    /\ Summarizing
    /\ ~ncfiles[Current].readable
    /\ summarizer' = [pc |-> "run", done |-> Current, status |-> 1]
    /\ UNCHANGED <<ncfiles, config_dict, e, skip, f2skip, status, summary, pc, last, pair, deployments, run>>

\* lines 148-155: the file holds no qartod flag variable and is left as it is
SummarizeNothing ==
    /\ Summarizing
    /\ ncfiles[Current].readable
    /\ qartod_vars(ncfiles[Current]) = {}
    /\ summarizer' = [summarizer EXCEPT !.pc = "run", !.done = Current]
    /\ UNCHANGED <<ncfiles, config_dict, e, skip, f2skip, status, summary, pc, last, pair, deployments, run>>

\* lines 138-217: the summary flags of the file are written
SummarizeFile ==
    /\ Summarizing
    /\ ncfiles[Current].readable
    /\ qartod_vars(ncfiles[Current]) # {}
    /\ ~SummaryRaises(ncfiles[Current])
    /\ ncfiles' = [ncfiles EXCEPT ![Current] =
                      AddHistory(SummarizeFrom(@, <<"conductivity", "pressure",
                                                    "temperature">>))]
    /\ summarizer' = [summarizer EXCEPT !.pc = "run", !.done = Current]
    /\ UNCHANGED <<config_dict, e, skip, f2skip, status, summary, pc, last, pair, deployments, run>>

\* line 162: KeyError, that nothing catches
SummarizeCrash ==
    /\ Summarizing
    /\ ncfiles[Current].readable
    /\ qartod_vars(ncfiles[Current]) # {}
    /\ SummaryRaises(ncfiles[Current])
    /\ summarizer' = [summarizer EXCEPT !.pc = "crashed"]
    /\ UNCHANGED <<ncfiles, config_dict, e, skip, f2skip, status, summary, pc, last, pair, deployments, run>>

\* line 218: the loop is over, main returns its status
SummaryEnd ==
    /\ pc = "done"
    /\ summarizer.pc \in {"idle", "run"}
    /\ summarizer.done = Len(ncfiles)
    /\ summarizer' = [summarizer EXCEPT !.pc = "done"]
    /\ UNCHANGED <<ncfiles, config_dict, e, skip, f2skip, status, summary, pc, last, pair, deployments, run>>

\* a file with more flag channels
WithChannels(file, channels) == [file EXCEPT !.vars = channels @@ @]

\* files with and without QARTOD channels
SummaryCatalog ==
    { Unreadable,
      \* no QARTOD channel
      Profile(<<0, 5, 10>>, <<>>, Near, Falling, <<>>, Falling, <<>>),
      \* a down and an up profile whose QARTOD tests passed nearly everywhere
      Profile(<<0, 5, 10>>, <<1, 1, 1>>, Near, Falling, <<1, 1, 1>>, Falling, <<2, 1, 1>>),
      Profile(<<10, 5, 0>>, <<>>, Near, Rising, <<1, 1, 1>>, Rising, <<>>),
      \* three channels for conductivity, one of them the climatology test
      WithChannels(
          Profile(<<10, 5, 0>>, <<>>, Near, <<30, 20, NaN>>, <<2, 1, 9>>, Rising, <<>>),
          ("conductivity_qartod_spike_test" :> <<1, 3, 2>>)
          @@ ("conductivity_qartod_climatology_test" :> <<4, 4, 4>>)),
      \* conductivity not evaluated by any test
      WithChannels(
          Profile(<<10, 5, 0>>, <<>>, Near, Rising, <<2, 2, 2>>, Rising, <<1, 1, 1>>),
          "conductivity_qartod_spike_test" :> <<2, 2, 2>>),
      \* a QARTOD channel of a sensor that is not in the file
      Profile(<<10, 5, 0>>, <<>>, Near, <<>>, <<1, 1, 1>>, Rising, <<>>) }

InitSummary ==
    \E n \in 1..MaxSummaryFiles : \E files \in FileLists(SummaryCatalog, n) :
        InitScan(files, ScanConfigs)

NextSummary ==
    \/ Next
    \/ SummarizeReadError
    \/ SummarizeNothing
    \/ SummarizeFile
    \/ SummarizeCrash
    \/ SummaryEnd

\* the hysteresis test, then the summary of the flags, on the same files
SpecSummary == InitSummary /\ [][NextSummary]_vars

----------------------------------------------------------------------------
(* What the claims speak of *)

\* the pressure of a file after its QARTOD flags are applied, and its span
MaskedPressure(file) == apply_qartod_qc(file, "pressure")

PressureSpan(file) == NanRange(MaskedPressure(file))

\* masked pressure entirely undefined, or spanning less than 5 dbar
DegenerateProfile(file) == IsNaN(PressureSpan(file)) \/ PressureSpan(file) < 5

DownProfile(file) ==
    /\ file.readable
    /\ ~DegenerateProfile(file)
    /\ FirstValid(MaskedPressure(file)) < LastValid(MaskedPressure(file))

UpProfile(file) ==
    /\ file.readable
    /\ ~DegenerateProfile(file)
    /\ FirstValid(MaskedPressure(file)) > LastValid(MaskedPressure(file))

\* seconds from the last sample of a file to the first sample of the next
GapSeconds(file, file2) == file2.time[1] - file.time[Len(file.time)]

\* the tested variable is in the file, with a defined sample
HasData(file, tv) ==
    /\ file.readable
    /\ tv \in DOMAIN file.vars
    /\ NonNanIdx(file.vars[tv]) # {}

Committed(file, tv) == file.readable /\ QcVarname(tv) \in DOMAIN file.vars

\* the file holds the QC variable of tv, with no sample classified: MISSING where
\* the raw value is undefined and NOT_EVALUATED elsewhere
CommittedNotEvaluated(file, tv) ==
    /\ Committed(file, tv)
    /\ tv \in DOMAIN file.vars
    /\ DOMAIN file.vars[QcVarname(tv)] = DOMAIN file.vars[tv]
    /\ \A j \in DOMAIN file.vars[tv] :
           file.vars[QcVarname(tv)][j] =
               IF IsNaN(file.vars[tv][j]) THEN MISSING ELSE NOT_EVALUATED

\* the values of {GOOD, SUSPECT, FAIL} a file holds in the QC variable of tv
Classes(file, tv) ==
    IF Committed(file, tv)
    THEN {file.vars[QcVarname(tv)][j] : j \in DOMAIN file.vars[QcVarname(tv)]}
         \cap {GOOD, SUSPECT, FAIL}
    ELSE {}

\* the step is an iteration of the file loop
Iteration == pc = "scan" /\ e < Len(ncfiles) /\ (e' = e + 1 \/ pc' = "crashed")

\* the iteration evaluates a readable file, and the file after it exists
CurrentReadable == Index <= Len(ncfiles) /\ ncfiles[Index].readable

HasNext == Index + 1 <= Len(ncfiles)

----------------------------------------------------------------------------
(* Claims *)

\* C1: when the read of the lookahead file (the file after a down current) fails,
\* the run is not interrupted: the error status is set and the scan goes on.
C1_LookaheadReadErrorNotFatal ==
    \A tv \in TestVars :
        last.path[tv] = "lookahead_read_error" => pc # "crashed" /\ status = 1

\* C2: when the read of the current file fails, only that file is skipped: the
\* file right after it (when there is one) is the next one evaluated as current.
C2_ReadErrorSkipsOneFile ==
    [][(last.kind = "read_error" /\ last.i + 1 <= Len(ncfiles) /\ e' = e + 1)
          => last'.i = last.i + 1]_vars

\* C3: a profile whose QA-masked pressure is entirely undefined or spans less
\* than 5 units never holds GOOD, SUSPECT or FAIL on any sample, as current or as
\* lookahead, whatever the tested variable contains; and a profile is set aside
\* as degenerate only in that case (a span of exactly 5 is eligible).
C3_DegenerateNeverClassified ==
    /\ \A k \in DOMAIN ncfiles : \A tv \in TestVars :
           (ncfiles[k].readable /\ DegenerateProfile(ncfiles[k]))
               => Classes(ncfiles[k], tv) = {}
    /\ \A tv \in TestVars :
           /\ last.path[tv] = "degenerate_current"
                  => DegenerateProfile(ncfiles[last.i])
           /\ last.path[tv] = "degenerate_lookahead"
                  => DegenerateProfile(ncfiles[last.i + 1])

\* a degenerate profile with defined samples of the tested variable was met as
\* lookahead of a down profile and committed
C3_Witness ==
    /\ last.kind = "file"
    /\ \E tv \in TestVars :
           /\ last.path[tv] = "degenerate_lookahead"
           /\ DegenerateProfile(ncfiles[last.i + 1])
           /\ HasData(ncfiles[last.i + 1], tv)
           /\ CommittedNotEvaluated(ncfiles[last.i + 1], tv)

\* the iteration meets a down profile followed by an up profile that starts 5
\* minutes or more after the down profile ends
GapPair ==
    /\ Iteration
    /\ CurrentReadable
    /\ HasNext
    /\ DownProfile(ncfiles[Index])
    /\ UpProfile(ncfiles[Index + 1])
    /\ GapSeconds(ncfiles[Index], ncfiles[Index + 1]) >= 5 * 60

\* the tested variable is in both files of the pair, with data in the first
InBoth(tv) == HasData(ncfiles[Index], tv) /\ tv \in DOMAIN ncfiles[Index + 1].vars

\* C4: a down profile followed by an up profile whose first timestamp is 5
\* minutes or more after the down profile's last timestamp is not classified:
\* both profiles are committed as NOT_EVALUATED for every tested variable, the
\* scan advances by 2, no area is computed and the error status is not set by
\* the step.  Only a gap strictly below 5 minutes proceeds to classification.
C4_TimeGapNotEvaluated ==
    [][/\ GapPair =>
            /\ pc' = "scan"
            /\ \A tv \in TestVars : InBoth(tv) =>
                   /\ CommittedNotEvaluated(ncfiles'[Index], tv)
                   /\ CommittedNotEvaluated(ncfiles'[Index + 1], tv)
                   /\ ~last'.obs[tv].area_computed
                   /\ summary'[tv].not_evaluated_profiles =
                          summary[tv].not_evaluated_profiles + 2
                   /\ summary'[tv].failed_profiles = summary[tv].failed_profiles
                   /\ summary'[tv].suspect_profiles = summary[tv].suspect_profiles
            /\ (\E tv \in TestVars : InBoth(tv)) => Index' = Index + 2
            /\ (\A tv \in TestVars : InBoth(tv)) => status' = status
       /\ (Iteration /\ CurrentReadable
              /\ \E tv \in TestVars : Classes(ncfiles'[Index], tv) # {})
            => /\ HasNext
               /\ ncfiles[Index + 1].readable
               /\ GapSeconds(ncfiles[Index], ncfiles[Index + 1]) < 5 * 60
      ]_vars

\* a down and an up profile exactly 5 minutes apart were both committed as
\* NOT_EVALUATED, with no error
C4_Witness ==
    /\ last.kind = "file"
    /\ status = 0
    /\ \A tv \in TestVars :
           /\ last.path[tv] = "time_gap"
           /\ CommittedNotEvaluated(ncfiles[last.i], tv)
           /\ CommittedNotEvaluated(ncfiles[last.i + 1], tv)
    /\ DownProfile(ncfiles[last.i])
    /\ UpProfile(ncfiles[last.i + 1])
    /\ GapSeconds(ncfiles[last.i], ncfiles[last.i + 1]) = 5 * 60

\* C5: when a down profile is the last file of the sequence, it is committed as
\* NOT_EVALUATED for every tested variable, the not-evaluated counter grows by 1
\* per variable, no further file is evaluated (the loop counter has moved on and
\* the index of the next iteration is beyond the list) and the status is kept.
C5_TerminalDown ==
    [][(/\ Iteration
        /\ CurrentReadable
        /\ Index = Len(ncfiles)
        /\ DownProfile(ncfiles[Index]))
       => /\ pc' = "scan"
          /\ e' = e + 1
          /\ Index' > Len(ncfiles)
          /\ \A tv \in TestVars : HasData(ncfiles[Index], tv) =>
                 /\ CommittedNotEvaluated(ncfiles'[Index], tv)
                 /\ summary'[tv].not_evaluated_profiles =
                        summary[tv].not_evaluated_profiles + 1
                 /\ summary'[tv].failed_profiles = summary[tv].failed_profiles
                 /\ summary'[tv].suspect_profiles = summary[tv].suspect_profiles
          /\ (\A tv \in TestVars : HasData(ncfiles[Index], tv)) => status' = status
      ]_vars

\* main returned with a clean status after a down profile at the end of the list
C5_Witness ==
    /\ pc = "done"
    /\ status = 0
    /\ last.kind = "file"
    /\ last.i = Len(ncfiles)
    /\ DownProfile(ncfiles[last.i])
    /\ \A tv \in TestVars :
           /\ last.path[tv] = "terminal_down"
           /\ CommittedNotEvaluated(ncfiles[last.i], tv)
           /\ summary[tv].not_evaluated_profiles >= 1

\* C6: for a pair whose area is computed, the flag is FAIL if normalizedArea >
\* dataRange x fail_threshold, otherwise SUSPECT if normalizedArea > dataRange x
\* suspect_threshold, otherwise GOOD (strict comparisons, FAIL tested first),
\* where normalizedArea is the area of the polygon over the pressure range;
\* with suspect_threshold 0.1 and fail_threshold 0.3, a normalizedArea of 0.05,
\* 0.2 and 0.4 times dataRange gives GOOD, SUSPECT and FAIL.
C6_AreaClassification ==
    (pc = "classified"
        /\ pair.data_range > pair.thresholds.test_threshold
        /\ pair.pressure_range > 0)
    => LET \* both sides of normalizedArea > dataRange x threshold, multiplied by
           \* 10 x pressure_range
           normalized == 10 * pair.polygon_area
           fail == pair.data_range * pair.thresholds.fail_threshold
                       * pair.pressure_range
           suspect == pair.data_range * pair.thresholds.suspect_threshold
                          * pair.pressure_range
       IN  /\ pair.flag = IF normalized > fail THEN FAIL
                          ELSE IF normalized > suspect THEN SUSPECT
                          ELSE GOOD
           /\ (/\ pair.thresholds.suspect_threshold = 1
               /\ pair.thresholds.fail_threshold = 3
               /\ pair.data_range = 20
               /\ pair.pressure_range = 10)
              => /\ pair.polygon_area = 10 => pair.flag = GOOD
                 /\ pair.polygon_area = 40 => pair.flag = SUSPECT
                 /\ pair.polygon_area = 80 => pair.flag = FAIL

\* a pair with a normalizedArea of 0.2 times its data range, between the suspect
\* and the fail ratio, was classified SUSPECT
C6_Witness ==
    /\ pc = "classified"
    /\ pair.thresholds = Thresholds(5, 1, 3)
    /\ pair.data_range = 20
    /\ pair.pressure_range = 10
    /\ pair.polygon_area = 40
    /\ pair.flag = SUSPECT

\* C7: for a structurally valid pair with surviving samples, if dataRange <=
\* test_threshold the pair is classified GOOD whatever the enclosed area is (the
\* area is not computed), and neither the suspect nor the failed counter changes.
C7_SmallRangeIsGood ==
    [][\A tv \in TestVars :
          (/\ Iteration
           /\ last'.kind = "file"
           /\ last'.path[tv] = "classified"
           /\ last'.obs[tv].data_range <= config_dict[QcVarname(tv)].test_threshold)
          => /\ last'.obs[tv].flag = GOOD
             /\ ~last'.obs[tv].area_computed
             /\ Classes(ncfiles'[Index], tv) = {GOOD}
             /\ Classes(ncfiles'[Index + 1], tv) = {GOOD}
             /\ summary'[tv] = summary[tv]
      ]_vars

\* a pair whose data range equals the test_threshold was classified GOOD with no
\* area computed
C7_Witness ==
    /\ last.kind = "file"
    /\ \E tv \in TestVars :
           /\ last.path[tv] = "classified"
           /\ last.obs[tv].data_range = config_dict[QcVarname(tv)].test_threshold
           /\ ~last.obs[tv].area_computed
           /\ Classes(ncfiles[last.i], tv) = {GOOD}
           /\ Classes(ncfiles[last.i + 1], tv) = {GOOD}

\* C8: for a fixed area, pressure range and data range, raising fail_threshold or
\* suspect_threshold never yields a more severe flag than before the raise
\* (GOOD = 1 < SUSPECT = 3 < FAIL = 4).
C8_MonotonicInThresholds ==
    [][(pc = "classified" /\ pc' = "classified") => pair'.flag <= pair.flag]_vars

\* a raise of a threshold took a pair from FAIL to SUSPECT
C8_Witness ==
    /\ pc = "classified"
    /\ pair.previous = FAIL
    /\ pair.flag = SUSPECT

\* C9: whenever a pair is jointly classified for a variable, every sample of the
\* down profile and every sample of the up profile that receives the
\* classification receives the same single value.
C9_OneFlagPerPair ==
    \A tv \in TestVars :
        (last.kind = "file" /\ last.path[tv] = "classified")
        => /\ Classes(ncfiles[last.i], tv) = {last.obs[tv].flag}
           /\ Classes(ncfiles[last.i + 1], tv) = {last.obs[tv].flag}

\* both profiles of a pair hold FAIL, and nothing else, on their classified
\* samples
C9_Witness ==
    /\ last.kind = "file"
    /\ \E tv \in TestVars :
           /\ last.path[tv] = "classified"
           /\ Classes(ncfiles[last.i], tv) = {FAIL}
           /\ Classes(ncfiles[last.i + 1], tv) = {FAIL}

\* C10: initialize_flags returns, for every sample, MISSING where the raw tested
\* variable is undefined and NOT_EVALUATED otherwise, in an array as long as the
\* variable; the samples flagged MISSING are still MISSING in the committed
\* channel after any classification, and no other sample is.
C10_MissingWhereUndefined ==
    \A k \in DOMAIN ncfiles : \A tv \in TestVars :
        (ncfiles[k].readable /\ tv \in DOMAIN ncfiles[k].vars)
        => LET data == ncfiles[k].vars[tv]
               initial == initialize_flags(ncfiles[k], tv).flags
           IN  /\ DOMAIN initial = DOMAIN data
               /\ \A j \in DOMAIN data :
                      initial[j] = IF IsNaN(data[j]) THEN MISSING ELSE NOT_EVALUATED
               /\ Committed(ncfiles[k], tv) =>
                      /\ DOMAIN ncfiles[k].vars[QcVarname(tv)] = DOMAIN data
                      /\ \A j \in DOMAIN data :
                             IsNaN(data[j]) <=>
                                 ncfiles[k].vars[QcVarname(tv)][j] = MISSING

\* a classified profile holds MISSING on an undefined sample next to samples
\* that hold the classification
C10_Witness ==
    /\ last.kind = "file"
    /\ \E tv \in TestVars :
           /\ last.path[tv] = "classified"
           /\ \E j \in DOMAIN ncfiles[last.i].vars[tv] :
                  /\ IsNaN(ncfiles[last.i].vars[tv][j])
                  /\ ncfiles[last.i].vars[QcVarname(tv)][j] = MISSING
           /\ Classes(ncfiles[last.i], tv) # {}

\* the channels the scan writes
HysteresisNames == {QcVarname(tv) : tv \in TestVars}

\* C11: no step of the scan changes a channel other than the
\* <variable>_hysteresis_test channels: every other channel of every file (raw
\* samples, pre-existing QC flags) is kept with its values, and no channel other
\* than a <variable>_hysteresis_test channel is added.
C11_OtherChannelsKept ==
    [][\A k \in DOMAIN ncfiles : ncfiles[k].readable =>
          /\ ncfiles'[k].readable
          /\ ncfiles'[k].time = ncfiles[k].time
          /\ DOMAIN ncfiles'[k].vars \subseteq DOMAIN ncfiles[k].vars \cup HysteresisNames
          /\ \A name \in DOMAIN ncfiles[k].vars \ HysteresisNames :
                 /\ name \in DOMAIN ncfiles'[k].vars
                 /\ ncfiles'[k].vars[name] = ncfiles[k].vars[name]
      ]_vars

\* a file that holds a QARTOD channel read as a filter was classified
C11_Witness ==
    \E k \in DOMAIN ncfiles :
        /\ ncfiles[k].readable
        /\ "conductivity_qartod_gross_range_test" \in DOMAIN ncfiles[k].vars
        /\ Classes(ncfiles[k], "conductivity") # {}
        /\ Classes(ncfiles[k], "temperature") # {}

\* C12: every committed <variable>_hysteresis_test channel has the length of
\* its profile and holds only values in {1, 2, 3, 4, 9}.
C12_ChannelWellFormed ==
    \A k \in DOMAIN ncfiles : \A tv \in TestVars :
        Committed(ncfiles[k], tv)
        => /\ tv \in DOMAIN ncfiles[k].vars
           /\ Len(ncfiles[k].vars[QcVarname(tv)]) = Len(ncfiles[k].vars[tv])
           /\ Len(ncfiles[k].vars[QcVarname(tv)]) = Len(ncfiles[k].time)
           /\ \A j \in DOMAIN ncfiles[k].vars[QcVarname(tv)] :
                  ncfiles[k].vars[QcVarname(tv)][j] \in {1, 2, 3, 4, 9}

\* a committed channel holds SUSPECT on a sample and MISSING on another
C12_Witness ==
    \E k \in DOMAIN ncfiles : \E tv \in TestVars :
        /\ Committed(ncfiles[k], tv)
        /\ \E j \in DOMAIN ncfiles[k].vars[QcVarname(tv)] :
               ncfiles[k].vars[QcVarname(tv)][j] = SUSPECT
        /\ \E j \in DOMAIN ncfiles[k].vars[QcVarname(tv)] :
               ncfiles[k].vars[QcVarname(tv)][j] = MISSING

\* the names in a sequence
Range(seq) == {seq[j] : j \in DOMAIN seq}

\* the summarizer has been through file k and wrote the summary flag of sensor
Summarized(k, sensor) ==
    /\ k <= summarizer.done
    /\ ncfiles[k].readable
    /\ SummaryVarname(sensor) \in DOMAIN ncfiles[k].vars

\* C13: after the hysteresis test then the summary step have run on a file, the
\* channel <sensor>_hysteresis_test is among the channels selected for that
\* sensor and its values are folded into <sensor>_qartod_summary_flag (the
\* summary is at least the hysteresis flag at every sample, NOT_EVALUATED apart).
C13_HysteresisInSummary ==
    \A k \in DOMAIN ncfiles : \A tv \in TestVars :
        (Summarized(k, tv) /\ Committed(ncfiles[k], tv))
        => /\ QcVarname(tv) \in Range(ncfiles[k].anc[SummaryVarname(tv)])
           /\ \A j \in DOMAIN ncfiles[k].vars[QcVarname(tv)] :
                  ncfiles[k].vars[SummaryVarname(tv)][j]
                      >= Neutral(ncfiles[k].vars[QcVarname(tv)][j])

\* the test channels of a sensor in a file: its _qartod_ channels, the
\* climatology test excluded
Selected(file, sensor) ==
    {x \in DOMAIN file.vars :
        x \in QartodNamesOf(sensor) /\ x # "conductivity_qartod_climatology_test"}

\* C14: the summary step writes, per sample of a sensor, the maximum over the
\* sensor's selected test channels (climatology excluded) with NOT_EVALUATED
\* counted as 0, and 2 where that maximum is 0: the summary is 2 exactly when
\* every selected channel is 2 at that sample, is never 0, lies in
\* {1, 2, 3, 4, 9}, and the channels of the file are left unchanged.
C14_SummaryIsHighestFlag ==
    [][(Summarizing /\ summarizer'.done = Current /\ ncfiles' # ncfiles)
       => LET file == ncfiles[Current]
              after == ncfiles'[Current]
          IN  /\ \A name \in DOMAIN file.vars :
                     name \in DOMAIN after.vars /\ after.vars[name] = file.vars[name]
              /\ \A sensor \in Sensors : Selected(file, sensor) # {} =>
                     /\ SummaryVarname(sensor) \in DOMAIN after.vars
                     /\ \A j \in DOMAIN file.vars[sensor] :
                            LET flags == {file.vars[x][j] : x \in Selected(file, sensor)}
                                value == after.vars[SummaryVarname(sensor)][j]
                            IN  /\ value # 0
                                /\ value \in {1, 2, 3, 4, 9}
                                /\ value = 2 <=> flags = {2}
                                /\ value # 2 => value = SetMax(flags \ {2})
      ]_vars

\* the summary of conductivity was taken over two channels, with the
\* climatology test (FAIL everywhere) left out
C14_Witness ==
    \E k \in DOMAIN ncfiles :
        /\ Summarized(k, "conductivity")
        /\ "conductivity_qartod_climatology_test" \in DOMAIN ncfiles[k].vars
        /\ ncfiles[k].vars["conductivity_qartod_climatology_test"] = <<4, 4, 4>>
        /\ ncfiles[k].vars["conductivity_qartod_gross_range_test"] = <<2, 1, 9>>
        /\ ncfiles[k].vars["conductivity_qartod_spike_test"] = <<1, 3, 2>>
        /\ ncfiles[k].vars["conductivity_qartod_summary_flag"] = <<1, 3, 9>>

\* the branches of the loop body that end in an exception nothing catches
RaisingPaths == {"lookahead_read_error", "no_rows", "ring_too_short"}

\* C15: when a tested variable is absent from the current profile, only that
\* variable is skipped for that file: the failure status is set, no channel is
\* written for it, the other tested variable of the file is still evaluated, and
\* the scan goes on (it ends only if the evaluation of the other variable
\* raises).
C15_MissingVariableSkipped ==
    [][\A tv \in TestVars :
          (Iteration /\ CurrentReadable /\ tv \notin DOMAIN ncfiles[Index].vars)
          => /\ status' = 1
             /\ last'.i = Index
             /\ last'.path[tv] = "missing_variable"
             /\ summary'[tv] = summary[tv]
             /\ pc' = "scan" => ~Committed(ncfiles'[Index], tv)
             /\ \A other \in TestVars \ {tv} :
                    other \in DOMAIN ncfiles[Index].vars
                    => /\ last'.path[other] \notin {"none", "missing_variable"}
                       /\ (pc' = "scan" /\ last'.path[other] # "no_data")
                              => Committed(ncfiles'[Index], other)
             /\ \/ pc' = "scan" /\ e' = e + 1
                \/ \E other \in TestVars \ {tv} : last'.path[other] \in RaisingPaths
      ]_vars

\* conductivity was absent from a down profile, temperature was classified with
\* the next file, and the scan goes on
C15_Witness ==
    /\ pc = "scan"
    /\ status = 1
    /\ last.kind = "file"
    /\ last.path["conductivity"] = "missing_variable"
    /\ last.path["temperature"] = "classified"
    /\ ~Committed(ncfiles[last.i], "conductivity")
    /\ Classes(ncfiles[last.i], "temperature") # {}

----------------------------------------------------------------------------
(* Several deployments in one invocation *)

\* the profiles of the deployments when main scans more than one
DeploymentCatalog ==
    { Unreadable,
      Profile(<<0, 5, 10>>, <<>>, Near, Falling, <<>>, Falling, <<>>),
      Profile(<<10, 5, 0>>, <<>>, Near, Rising, <<>>, Rising, <<>>) }

\* the file lists a deployment can have
DeploymentFiles ==
    UNION { FileLists(DeploymentCatalog, n) : n \in 1..MaxDeploymentFiles }

\* main is started on two deployments: the first is under scan, the second waits
InitDeployments ==
    /\ ncfiles \in DeploymentFiles
    /\ config_dict \in ScanConfigs
    /\ e = 0
    /\ skip = 0
    /\ f2skip = Unbound
    /\ status = 0
    /\ summary = ZeroSummary
    /\ pc = "scan"
    /\ last = NoStep
    /\ pair = NoPair
    /\ summarizer = NotStarted
    /\ \E files \in DeploymentFiles : deployments = <<files>>
    /\ run = FirstRun

\* lines 155-254, 581-598: the file loop of a deployment is over, its summary
\* is logged and the loop over args.deployments takes the next deployment:
\* ncfiles, summary and skip are assigned anew, f2skip and status are not
NextDeployment ==
    /\ pc = "scan"
    /\ e = Len(ncfiles)
    /\ deployments # <<>>
    /\ ncfiles' = Head(deployments)
    /\ deployments' = Tail(deployments)
    /\ summary' = ZeroSummary
    /\ skip' = 0
    /\ e' = 0
    /\ last' = [NoStep EXCEPT !.kind = "deployment"]
    /\ UNCHANGED <<config_dict, f2skip, status, pc, pair, summarizer, run>>

NextDeployments == Next \/ NextDeployment

\* main on two deployments
SpecDeployments == InitDeployments /\ [][NextDeployments]_vars

\* the scan of a deployment after the first is about to run its first iteration
LaterDeploymentStarts == pc = "scan" /\ e = 0 /\ last.kind = "deployment"

(* C16: a deployment's scan starts with its first file as current, whatever *)
(* the scan of the deployment before it ended with, and with its summary    *)
(* counters at zero.                                                        *)
C16_DeploymentStartsClean ==
    LaterDeploymentStarts => Index = 1 /\ summary = ZeroSummary

----------------------------------------------------------------------------
(* Profiles that end at the pressure they start at *)

\* plain profiles, and a profile that goes down and comes back up in one file:
\* its first and last valid pressures are equal, its pressure spans 5 dbar
DirectionCatalog ==
    { Unreadable,
      Profile(<<0, 5, 0>>, <<>>, Near, Falling, <<>>, Falling, <<>>),
      Profile(<<0, 5, 10>>, <<>>, Near, Falling, <<>>, Falling, <<>>),
      Profile(<<10, 5, 0>>, <<>>, Near, Rising, <<>>, Rising, <<>>),
      Profile(<<0, 5, 10>>, <<>>, Edge, Falling, <<>>, Falling, <<>>),
      Profile(<<0, 2, 4>>, <<>>, Near, Falling, <<>>, Falling, <<>>),
      Profile(<<0, 5, 10>>, <<>>, Near, Falling, <<4, 3, 2>>, Falling, <<>>) }

InitDirection ==
    \E n \in 1..MaxDirectionFiles : \E files \in FileLists(DirectionCatalog, n) :
        InitScan(files, ScanConfigs)

\* the scan of short file lists drawn from DirectionCatalog
SpecDirection == InitDirection /\ [][Next]_vars

\* down when the first valid pressure is below the last one, up otherwise
DirectionOf(file) ==
    IF FirstValid(MaskedPressure(file)) < LastValid(MaskedPressure(file))
    THEN "down" ELSE "up"

\* the branches taken after the direction of the current file was determined
DirectedCurrent ==
    {"up_current", "terminal_down", "lookahead_missing_variable",
     "degenerate_lookahead", "down_lookahead", "time_gap", "no_surviving_data",
     "classified", "no_rows", "ring_too_short"}

\* the branches taken after the direction of the lookahead file was determined
DirectedLookahead ==
    {"down_lookahead", "time_gap", "no_surviving_data", "classified", "no_rows",
     "ring_too_short"}

(* C17: a profile is down when its first valid masked pressure is strictly   *)
(* below its last valid one and up otherwise (equal ends are up), examined   *)
(* as current or as lookahead alike: the scan takes the branch of an up      *)
(* current exactly for the up profiles, and the branch of a down lookahead   *)
(* exactly for the down profiles.                                            *)
C17_DirectionRule ==
    last.kind = "file" =>
        \A tv \in TestVars :
            /\ last.path[tv] \in DirectedCurrent =>
                   (last.path[tv] = "up_current"
                        <=> DirectionOf(ncfiles[last.i]) = "up")
            /\ last.path[tv] \in DirectedLookahead =>
                   (last.path[tv] = "down_lookahead"
                        <=> DirectionOf(ncfiles[last.i + 1]) = "down")

\* the tested variable of the file has a sample left after its QARTOD flags
\* are applied
SurvivingData(file, tv) ==
    /\ tv \in DOMAIN file.vars
    /\ NonNanIdx(apply_qartod_qc(file, tv)) # {}

(* C18: GOOD, SUSPECT or FAIL is only committed by a step on two adjacent    *)
(* files i and i+1 where file i is down, file i+1 is up, both masked         *)
(* pressures span 5 dbar or more, file i+1 starts less than 5 minutes after  *)
(* the last sample of file i and both files have a surviving sample of the   *)
(* tested variable; the scan then advances by 2.                             *)
C18_ClassifiedOnlyInPairs ==
    [][\A k \in DOMAIN ncfiles : \A tv \in TestVars :
          (/\ DOMAIN ncfiles' = DOMAIN ncfiles
           /\ Classes(ncfiles[k], tv) = {}
           /\ Classes(ncfiles'[k], tv) # {}) =>
              /\ HasNext
              /\ k \in {Index, Index + 1}
              /\ DirectionOf(ncfiles[Index]) = "down"
              /\ DirectionOf(ncfiles[Index + 1]) = "up"
              /\ ~DegenerateProfile(ncfiles[Index])
              /\ ~DegenerateProfile(ncfiles[Index + 1])
              /\ GapSeconds(ncfiles[Index], ncfiles[Index + 1]) < 5 * 60
              /\ SurvivingData(ncfiles[Index], tv)
              /\ SurvivingData(ncfiles[Index + 1], tv)
              /\ Index' = Index + 2]_vars

\* the iteration evaluates a down profile and the file after it is a down
\* profile too
DownDown ==
    /\ Iteration
    /\ CurrentReadable
    /\ HasNext
    /\ DownProfile(ncfiles[Index])
    /\ DownProfile(ncfiles[Index + 1])

\* the iteration evaluates the lookahead of a down, down step, and the file
\* after it is an up profile less than 5 minutes away
DownDownUp ==
    /\ Iteration
    /\ CurrentReadable
    /\ HasNext
    /\ last.kind = "file"
    /\ last.i + 1 = Index
    /\ DownProfile(ncfiles[last.i])
    /\ DownProfile(ncfiles[Index])
    /\ UpProfile(ncfiles[Index + 1])
    /\ GapSeconds(ncfiles[Index], ncfiles[Index + 1]) < 5 * 60

(* C19: when the current file is a down profile and the lookahead is a down  *)
(* profile too, only the current file is committed, as NOT_EVALUATED, and    *)
(* the scan advances by 1: the lookahead gets no flag in the step and is the *)
(* current file of the next step, where it is classified with an up profile  *)
(* that follows it (down, down, up: the first is not evaluated, the second   *)
(* and the third are classified as a pair).                                  *)
C19_DownDownAdvancesByOne ==
    [][/\ DownDown =>
            /\ pc' = "scan"
            /\ Index' = Index + 1
            /\ \A tv \in TestVars : InBoth(tv) =>
                   /\ CommittedNotEvaluated(ncfiles'[Index], tv)
                   /\ ~Committed(ncfiles'[Index + 1], tv)
                   /\ summary'[tv].not_evaluated_profiles =
                          summary[tv].not_evaluated_profiles + 1
       /\ DownDownUp =>
            /\ Index' = Index + 2
            /\ \A tv \in TestVars :
                   (SurvivingData(ncfiles[Index], tv)
                        /\ SurvivingData(ncfiles[Index + 1], tv)) =>
                       /\ Classes(ncfiles'[Index], tv) # {}
                       /\ Classes(ncfiles'[Index + 1], tv) # {}
                       /\ HasData(ncfiles[last.i], tv) =>
                              CommittedNotEvaluated(ncfiles'[last.i], tv)]_vars

\* down, down, up: the first file is not evaluated, the other two are classified
C19_Witness ==
    /\ pc = "scan"
    /\ last.kind = "file"
    /\ last.i = 2
    /\ Len(ncfiles) >= 3
    /\ DownProfile(ncfiles[1])
    /\ DownProfile(ncfiles[2])
    /\ UpProfile(ncfiles[3])
    /\ \A tv \in TestVars :
           /\ CommittedNotEvaluated(ncfiles[1], tv)
           /\ Classes(ncfiles[2], tv) # {}
           /\ Classes(ncfiles[3], tv) # {}

\* the iteration evaluates a down profile and the masked pressure of the file
\* after it is undefined throughout or spans less than 5 dbar
DownDegenerate ==
    /\ Iteration
    /\ CurrentReadable
    /\ HasNext
    /\ DownProfile(ncfiles[Index])
    /\ ncfiles[Index + 1].readable
    /\ DegenerateProfile(ncfiles[Index + 1])

(* C20: when the current file is a down profile and the masked pressure of   *)
(* the lookahead is undefined throughout or spans less than 5 dbar, both     *)
(* files are committed as NOT_EVALUATED, the not-evaluated counter grows by  *)
(* 2 and the scan advances by 2: the lookahead is not evaluated again as     *)
(* current.                                                                  *)
C20_DegenerateLookaheadConsumed ==
    [][DownDegenerate =>
          /\ pc' = "scan"
          /\ \A tv \in TestVars : InBoth(tv) =>
                 /\ CommittedNotEvaluated(ncfiles'[Index], tv)
                 /\ CommittedNotEvaluated(ncfiles'[Index + 1], tv)
                 /\ summary'[tv].not_evaluated_profiles =
                        summary[tv].not_evaluated_profiles + 2
          /\ (\E tv \in TestVars : InBoth(tv)) => Index' = Index + 2]_vars

\* a down profile and a shallow profile after it were committed in one step,
\* and the scan went on past both
C20_Witness ==
    /\ pc = "scan"
    /\ last.kind = "file"
    /\ last.i = 1
    /\ e = 1
    /\ Len(ncfiles) >= 3
    /\ Index = 3
    /\ DownProfile(ncfiles[1])
    /\ DegenerateProfile(ncfiles[2])
    /\ \A tv \in TestVars :
           /\ last.path[tv] = "degenerate_lookahead"
           /\ CommittedNotEvaluated(ncfiles[1], tv)
           /\ CommittedNotEvaluated(ncfiles[2], tv)
           /\ summary[tv].not_evaluated_profiles = 2

\* the iteration evaluates a down profile, and the file after it is an up
\* profile that starts less than 5 minutes after its last sample
ValidPair ==
    /\ Iteration
    /\ CurrentReadable
    /\ HasNext
    /\ DownProfile(ncfiles[Index])
    /\ UpProfile(ncfiles[Index + 1])
    /\ GapSeconds(ncfiles[Index], ncfiles[Index + 1]) < 5 * 60

\* the tested variable is in both files of the pair and one of them has no
\* sample left after the QARTOD flags are applied
NoSurvivor(tv) ==
    /\ tv \in DOMAIN ncfiles[Index].vars
    /\ tv \in DOMAIN ncfiles[Index + 1].vars
    /\ ~(SurvivingData(ncfiles[Index], tv) /\ SurvivingData(ncfiles[Index + 1], tv))

\* the step commits both files as NOT_EVALUATED for tv, computes no area and
\* counts two profiles not evaluated
BothNotEvaluated(tv) ==
    /\ CommittedNotEvaluated(ncfiles'[Index], tv)
    /\ CommittedNotEvaluated(ncfiles'[Index + 1], tv)
    /\ ~last'.obs[tv].area_computed
    /\ summary'[tv].not_evaluated_profiles = summary[tv].not_evaluated_profiles + 2

(* C21 as stated: for a down profile followed by an up profile less than 5   *)
(* minutes later, if the tested variable of either profile has no sample     *)
(* surviving the QARTOD mask, both profiles are committed as NOT_EVALUATED,  *)
(* no area is computed, the not-evaluated counter grows by 2 and the scan    *)
(* advances by 2.                                                            *)
C21_NoSurvivorNotEvaluated ==
    [][ValidPair =>
          \A tv \in TestVars : NoSurvivor(tv) =>
              /\ pc' = "scan"
              /\ BothNotEvaluated(tv)
              /\ Index' = Index + 2]_vars

(* C21, amended: as stated when the tested variable of the down profile has  *)
(* a defined raw sample.  A down profile whose tested variable is undefined  *)
(* throughout is skipped for that variable: the error status is set and the  *)
(* step commits no channel of that variable to either file.                  *)
C21_NoSurvivorNotEvaluated_Amended ==
    [][ValidPair =>
          \A tv \in TestVars : NoSurvivor(tv) =>
              IF HasData(ncfiles[Index], tv)
              THEN /\ pc' = "scan"
                   /\ BothNotEvaluated(tv)
                   /\ Index' = Index + 2
              ELSE /\ status' = 1
                   /\ ~Committed(ncfiles'[Index], tv)
                   /\ ~Committed(ncfiles'[Index + 1], tv)
                   /\ summary'[tv] = summary[tv]]_vars

\* a pair was consumed with no sample of conductivity left in one of its
\* files, and a pair was left with no channel for an undefined conductivity
C21_Witness ==
    /\ pc = "scan"
    /\ last.kind = "file"
    /\ last.i = 1
    /\ Len(ncfiles) = 2
    /\ DownProfile(ncfiles[1])
    /\ UpProfile(ncfiles[2])
    /\ last.path["conductivity"] = "no_surviving_data"
    /\ ~SurvivingData(ncfiles[1], "conductivity")
    /\ HasData(ncfiles[1], "conductivity")
    /\ CommittedNotEvaluated(ncfiles[1], "conductivity")
    /\ CommittedNotEvaluated(ncfiles[2], "conductivity")
    /\ summary["conductivity"].not_evaluated_profiles = 2
    /\ Index = 3

(* C22: when a pair is classified, the class is written to exactly the       *)
(* surviving samples of both profiles, those whose tested-variable value is  *)
(* defined and not masked by a QARTOD flag; every other sample keeps its     *)
(* initial flag, MISSING where the raw value is undefined and NOT_EVALUATED  *)
(* elsewhere.                                                                *)
C22_ClassOnSurvivingSamples ==
    \A tv \in TestVars :
        (last.kind = "file" /\ last.path[tv] = "classified") =>
            \A k \in {last.i, last.i + 1} :
                \A j \in DOMAIN ncfiles[k].vars[tv] :
                    ncfiles[k].vars[QcVarname(tv)][j] =
                        IF ~IsNaN(apply_qartod_qc(ncfiles[k], tv)[j])
                        THEN last.obs[tv].flag
                        ELSE IF IsNaN(ncfiles[k].vars[tv][j])
                        THEN MISSING
                        ELSE NOT_EVALUATED

\* the ancillary_variables attribute of a variable of the file names the channel
Linked(file, v, qc_varname) ==
    /\ v \in DOMAIN file.anc
    /\ \E j \in DOMAIN file.anc[v] : file.anc[v][j] = qc_varname

(* C23: every file that holds the channel <variable>_hysteresis_test, by     *)
(* whatever branch of the scan it was committed, names the channel in the    *)
(* ancillary_variables attribute of the tested variable, of salinity and of  *)
(* density.                                                                  *)
C23_CommitLinksAncillary ==
    \A k \in DOMAIN ncfiles : \A tv \in TestVars :
        Committed(ncfiles[k], tv) =>
            \A v \in {tv} \cup DerivedVars : Linked(ncfiles[k], v, QcVarname(tv))

\* the files that hold the channel of tv with no sample classified
NotEvaluatedFiles(tv) ==
    {k \in DOMAIN ncfiles : Committed(ncfiles[k], tv) /\ Classes(ncfiles[k], tv) = {}}

\* the files that hold the channel of tv with samples of the class
ClassFiles(tv, class) == {k \in DOMAIN ncfiles : class \in Classes(ncfiles[k], tv)}

(* C24: the counters of the summary track the commits: for each tested       *)
(* variable not_evaluated_profiles is the number of files committed with no  *)
(* class, suspect_profiles and failed_profiles are the numbers of files      *)
(* classified SUSPECT and FAIL (two for each pair), files classified GOOD    *)
(* are in no counter, and the three counters never add up to more than the   *)
(* number of files.                                                          *)
C24_CountersTrackCommits ==
    pc # "crashed" =>
        \A tv \in TestVars :
            /\ summary[tv].not_evaluated_profiles = Cardinality(NotEvaluatedFiles(tv))
            /\ summary[tv].suspect_profiles = Cardinality(ClassFiles(tv, SUSPECT))
            /\ summary[tv].failed_profiles = Cardinality(ClassFiles(tv, FAIL))
            /\ \A k \in ClassFiles(tv, SUSPECT) \cup ClassFiles(tv, FAIL) :
                   \E j \in {k - 1, k + 1} \cap DOMAIN ncfiles :
                       Classes(ncfiles[j], tv) = Classes(ncfiles[k], tv)
            /\ summary[tv].not_evaluated_profiles + summary[tv].suspect_profiles
                   + summary[tv].failed_profiles <= Len(ncfiles)

\* a run that ended with a pair classified FAIL for conductivity and GOOD for
\* temperature, and two more files not evaluated
C24_Witness ==
    /\ pc = "done"
    /\ Len(ncfiles) = 4
    /\ summary["conductivity"].failed_profiles = 2
    /\ summary["conductivity"].not_evaluated_profiles = 2
    /\ Cardinality(ClassFiles("conductivity", FAIL)) = 2
    /\ Cardinality(ClassFiles("temperature", GOOD)) = 2
    /\ summary["temperature"].suspect_profiles = 0
    /\ summary["temperature"].failed_profiles = 0

----------------------------------------------------------------------------
(* Profiles with flag channels of every kind *)

\* flags of every value on the tested variables, and a file that also holds
\* potential_temperature and the channel of a QARTOD test of it
MaskCatalog ==
    { Unreadable,
      Profile(<<0, 5, 10>>, <<>>, Near, Falling, <<>>, Falling, <<>>),
      Profile(<<0, 5, 10>>, <<1, 1, 9>>, Near, <<NaN, 20, 30>>, <<9, 1, 1>>,
              Falling, <<2, 3, 1>>),
      Profile(<<10, 5, 0>>, <<>>, Near, Rising, <<1, 4, 1>>, Rising, <<>>),
      WithChannels(
          Profile(<<10, 5, 0>>, <<>>, Near, Rising, <<>>, Rising, <<1, 1, 1>>),
          ("potential_temperature" :> Rising)
          @@ ("potential_temperature_qartod_spike_test" :> <<1, 4, 4>>)) }

InitMask ==
    \E n \in 1..MaxMaskFiles : \E files \in FileLists(MaskCatalog, n) :
        InitScan(files, ScanConfigs)

\* the scan of short file lists drawn from MaskCatalog
SpecMask == InitMask /\ [][Next]_vars

(* C25: apply_qartod_qc gives a copy of the variable in which a sample is    *)
(* undefined exactly when it is undefined in the file or a QARTOD channel of *)
(* that same variable holds 2, 3 or 4 at the sample, and has its value       *)
(* otherwise: the channels of another variable, one whose name ends with the *)
(* name of this variable included, and the flags 1 and 9 mask nothing.       *)
C25_MaskedByOwnChannels ==
    \A k \in DOMAIN ncfiles :
        ncfiles[k].readable =>
            \A v \in Sensors \cap DOMAIN ncfiles[k].vars :
                \A j \in DOMAIN ncfiles[k].vars[v] :
                    apply_qartod_qc(ncfiles[k], v)[j] =
                        IF \E x \in DOMAIN ncfiles[k].vars :
                               /\ ContainsQartod(x)
                               /\ SplitQartod(x) = v
                               /\ ncfiles[k].vars[x][j] \in {NOT_EVALUATED, SUSPECT, FAIL}
                        THEN NaN
                        ELSE ncfiles[k].vars[v][j]

(* C26: when no file of the list fails to be read, the scan ends with every  *)
(* file in which a tested variable has a defined sample holding the channel  *)
(* of that variable, a file consumed as the lookahead of a pair formed for   *)
(* the other tested variable included.                                       *)
C26_EveryFileCommitted ==
    (pc = "done" /\ \A k \in DOMAIN ncfiles : ncfiles[k].readable) =>
        \A k \in DOMAIN ncfiles : \A tv \in TestVars :
            HasData(ncfiles[k], tv) => Committed(ncfiles[k], tv)

(* C27: within a run, for each tested variable, the channel of a file is     *)
(* committed at most once and a file is in at most one pair: a file that     *)
(* holds the channel (committed as the current file or as a consumed         *)
(* lookahead) is before the file any later iteration evaluates, so it is     *)
(* neither evaluated again as current nor flagged again as a lookahead, and  *)
(* later iterations leave it as it is.                                       *)
C27_CommittedOnce ==
    [][(Iteration /\ CurrentReadable) =>
          \A k \in DOMAIN ncfiles : \A tv \in TestVars :
              Committed(ncfiles[k], tv) =>
                  /\ k < Index
                  /\ ncfiles'[k] = ncfiles[k]]_vars

\* a classified pair, then the file after it evaluated as current
C27_Witness ==
    /\ last.kind = "file"
    /\ last.i = 3
    /\ Len(ncfiles) >= 3
    /\ \A tv \in TestVars :
           /\ Classes(ncfiles[1], tv) # {}
           /\ Classes(ncfiles[2], tv) # {}
           /\ Classes(ncfiles[1], tv) = Classes(ncfiles[2], tv)
           /\ CommittedNotEvaluated(ncfiles[3], tv)

(* C28: within a run a file that the scan writes back gets exactly one more  *)
(* line in its history attribute, also when it was loaded as a lookahead,    *)
(* not consumed, and evaluated as current by the next iteration: no file     *)
(* ends up with two more lines, and a file that holds a channel has one.     *)
C28_OneHistoryLine ==
    \A k \in DOMAIN ncfiles :
        ncfiles[k].readable =>
            /\ ncfiles[k].history <= 1
            /\ (\E tv \in TestVars : Committed(ncfiles[k], tv)) =>
                   ncfiles[k].history = 1

(* C29: the order of the thresholds is not checked.  When fail_threshold is  *)
(* not above suspect_threshold and the data range is above test_threshold,   *)
(* no pair is classified SUSPECT: the flag is FAIL or GOOD, the comparison   *)
(* with fail_threshold being made first.                                     *)
C29_NoSuspectWhenFailBelow ==
    (/\ pc = "classified"
     /\ pair.thresholds.fail_threshold <= pair.thresholds.suspect_threshold
     /\ pair.data_range > pair.thresholds.test_threshold) =>
        pair.flag \in {FAIL, GOOD}

\* a pair whose area is above both limits, fail_threshold below suspect_threshold
C29_Witness ==
    /\ pc = "classified"
    /\ pair.thresholds.fail_threshold < pair.thresholds.suspect_threshold
    /\ pair.data_range > pair.thresholds.test_threshold
    /\ pair.pressure_range > 0
    /\ AreaExceeds(pair.polygon_area, pair.pressure_range, pair.data_range,
                   pair.thresholds.suspect_threshold)
    /\ pair.flag = FAIL

----------------------------------------------------------------------------
(* main run a second time over the files it has processed *)

RerunCatalog ==
    { Unreadable,
      Profile(<<0, 5, 10>>, <<>>, Near, Falling, <<>>, Falling, <<>>),
      Profile(<<10, 5, 0>>, <<>>, Near, Rising, <<>>, Rising, <<>>),
      Profile(<<0, 2, 4>>, <<>>, Near, Falling, <<>>, Falling, <<>>),
      Profile(<<0, 5, 10>>, <<>>, Near, <<NaN, 20, 30>>, <<1, 4, 1>>,
              <<10, 20, NaN>>, <<9, 1, 1>>) }

InitRerun ==
    \E n \in 1..MaxRerunFiles : \E files \in FileLists(RerunCatalog, n) :
        InitScan(files, ScanConfigs)

\* the areas shapely returns for the polygons of file i: the area of a polygon
\* is a function of its points, so a second run gets the areas of the first
RerunAreas(i) ==
    IF run.n > 1 /\ i \in DOMAIN run.polygon_areas
    THEN {run.polygon_areas[i]}
    ELSE AreaChoices(i)

\* lines 269-579, as IterFile, the areas of the first run kept for the second
RerunFile ==
    /\ pc = "scan"
    /\ e < Len(ncfiles)
    /\ Index <= Len(ncfiles)
    /\ ncfiles[Index].readable
    /\ \E polygon_areas \in RerunAreas(Index) :
         /\ Written(FileBody(Index, polygon_areas), Index)
         /\ run' = IF run.n = 1
                   THEN [run EXCEPT !.polygon_areas = Put(@, Index, polygon_areas)]
                   ELSE run
    /\ e' = e + 1
    /\ skip' = SkipNow
    /\ UNCHANGED <<config_dict, pc, pair, summarizer, deployments>>

\* lines 134-254: main has returned and is started again on the same qc_queue,
\* with the same configuration
Rerun ==
    /\ pc = "done"
    /\ run.n = 1
    /\ run' = [run EXCEPT !.n = 2, !.ncfiles = ncfiles]
    /\ pc' = "scan"
    /\ e' = 0
    /\ skip' = 0
    /\ f2skip' = Unbound
    /\ status' = 0
    /\ summary' = ZeroSummary
    /\ last' = [NoStep EXCEPT !.kind = "rerun"]
    /\ UNCHANGED <<ncfiles, config_dict, pair, summarizer, deployments>>

NextRerun ==
    \/ IterPastEnd
    \/ IterReadError
    \/ RerunFile
    \/ IterCrash
    \/ ScanEnd
    \/ Rerun

\* main run twice over the same files
SpecRerun == InitRerun /\ [][NextRerun]_vars

\* how many times the ancillary_variables of a variable of the file name the
\* channel
Links(file, v, qc_varname) ==
    IF v \in DOMAIN file.anc
    THEN Cardinality({j \in DOMAIN file.anc[v] : file.anc[v][j] = qc_varname})
    ELSE 0

====
